---------------------------- MODULE Spec2Model ----------------------------
(***************************************************************************)
(* The undo manager of src/undo_manager/index.js: a facade over an         *)
(* UndoManager instance `um` (package backbone-undo, imported at line 27   *)
(* and not part of the sources).  What index.js itself defines (the        *)
(* configuration merge, the hasSkip test, the change / add / remove /      *)
(* change:<ev> undo types, the edit-mode guard, getStackGroup, destroy) is *)
(* translated from its code.  The command stack behind `um` (push,         *)
(* truncation, eviction, pointer moves, grouping, registration) follows    *)
(* sections 3 and 4 of the specification; the pointer is the number of     *)
(* applied records.                                                        *)
(***************************************************************************)
EXTENDS Integers, Sequences, FiniteSets, TLC

(* ------------------------------ bounds --------------------------------- *)

\* Largest number of records the model lets the stack hold.
MaxRecords == 2

\* Largest group tag the model hands out (tags start at 0).
MaxFusion == 1

(* ------------------------- the host's entities ------------------------- *)

Models == {"m1", "m2", "m3", "m4"}
Collections == {"c"}
Elements == {"x"}
Entities == Models \cup Collections

\* A model's observable state: one snapshot value stands for the whole
\* attribute map (previousAttributes() and toJSON() both give the full map).
Values == {"red", "blue"}

undefined == "undefined"
null == "null"
Falsy(x) == x \in {undefined, null}

\* An options object as the set of the flags it carries.
Flags == {"avoidStore", "noUndo"}
Options == SUBSET Flags

\* The `_undo` marker of each model (object.get('_undo')): true on m1, the
\* list ['style'] on m2, the list ['src'] on m3, none on m4.
undoMarker ==
  [m \in Models |->
     CASE m = "m1" -> [kind |-> "boolean", value |-> TRUE, items |-> {}]
       [] m = "m2" -> [kind |-> "array", value |-> TRUE, items |-> {"style"}]
       [] m = "m3" -> [kind |-> "array", value |-> TRUE, items |-> {"src"}]
       [] OTHER -> [kind |-> "undefined", value |-> FALSE, items |-> {}]]

\* if (hasUndo): false and undefined are falsy, true and any array truthy.
Truthy(marker) ==
  ~(marker.kind = "undefined" \/ (marker.kind = "boolean" /\ ~marker.value))

isBoolean(marker) == marker.kind = "boolean"
isArray(marker) == marker.kind = "array"

\* The attribute names a 'change' notification reports as changed.
changedAttributes == {"style"}

(* ------------------------------ variables ------------------------------ *)

VARIABLES
  attrs,                \* attrs[m]: the state of model m
  members,              \* members[c]: the elements of collection c
  editing,              \* em.isEditing()
  hostOpts,             \* the opts object the host passed to init
  maximumStackLength,   \* um.stack.maximumStackLength
  registered,           \* the entities um listens to
  track,                \* um.stack.track
  stack,                \* um.stack: the sequence of records
  pointer,              \* um.stack.pointer: number of applied records
  beforeCache,          \* the closure variable beforeCache
  magicFusionIndex,     \* the last group tag handed out
  callstackWasIndexed,  \* a group tag was handed out in the running cycle
  destroyed,            \* history: destroy() has been called
  last,                 \* history: the last operation and how it went
  callerOpts,           \* the options object of the add / remove just made,
                        \* which its caller still holds and may change
  bus,                  \* the events em.trigger received during the last
                        \* operation, each with the pointer it could read
  trip                  \* history: a recorded mutation and the undo() and
                        \* redo() that directly followed it

hostVars == <<attrs, members, editing, hostOpts>>
umVars == <<maximumStackLength, registered, track, stack, pointer,
            magicFusionIndex, callstackWasIndexed>>
vars == <<attrs, members, editing, hostOpts, maximumStackLength, registered,
          track, stack, pointer, beforeCache, magicFusionIndex,
          callstackWasIndexed, destroyed, last, callerOpts, bus, trip>>

(* --------------------------- configuration ----------------------------- *)

configDef == [maximumStackLength |-> 500]

\* { ...a, ...b }: the keys of both, b's value where both have the key.
Spread(a, b) ==
  [k \in (DOMAIN a) \cup (DOMAIN b) |-> IF k \in DOMAIN b THEN b[k] ELSE a[k]]

EmptyObject == [k \in {} |-> 0]

\* The opts objects a host passes to init: none, or a stack limit.
HostOptions == {EmptyObject, [maximumStackLength |-> MaxRecords]}

\* init: config = { ...opts, ...configDef }
initConfig(opts) == Spread(opts, configDef)

\* hasSkip with the noUndo flag forgotten.
hasSkip_avoidStoreOnly(opts) == "avoidStore" \in opts

hasSkip(opts) == ("avoidStore" \in opts) \/ ("noUndo" \in opts)


(* --------------------- the undo types of index.js ---------------------- *)

\* hasUndo.indexOf(hasUndo): the position of the array in itself; an array
\* of attribute names never holds itself.
IndexOfSelf(items) == -1

\* changeUndoType('change').condition
changeCondition(object) ==
  LET hasUndo == undoMarker[object] IN
  IF Truthy(hasUndo)
  THEN IF isBoolean(hasUndo) THEN TRUE
       ELSE IF isArray(hasUndo)
            THEN \E chn \in changedAttributes :
                   IndexOfSelf(hasUndo.items) >= 0
            ELSE FALSE
  ELSE FALSE

\* changeUndoType('change').on: prev is object.previousAttributes(), json is
\* object.toJSON(), bc the beforeCache found.  Gives what the handler
\* returns (<<>> for no value) and the beforeCache it leaves.
changeOn(object, opt, prev, json, bc) ==
  LET cache == IF Falsy(bc) THEN prev ELSE bc IN
  IF hasSkip(opt)
  THEN [result |-> <<>>, beforeCache |-> cache]
  ELSE [result |-> <<[object |-> object, before |-> cache, after |-> json,
                      options |-> <<>>]>>,
        beforeCache |-> null]

\* An options object held in a record: an object of the record's own with
\* the value it was given, or the caller's object itself.
OwnObject(options) == [ref |-> "own", value |-> options]
CallerObject(options) == [ref |-> "caller", value |-> options]

\* { ...options }: a new object with the properties of options.
SpreadOptions(options) == OwnObject(options)

\* What an options object of a record reads as, `caller` being the caller's
\* object as it is now.
ReadOptions(o, caller) == IF o.ref = "caller" THEN caller ELSE o.value

\* The add handler storing the options object it was given.
addOn_sameOptions(model, collection, options, bc) ==
  IF hasSkip(options)
  THEN [result |-> <<>>, beforeCache |-> bc]
  ELSE [result |-> <<[object |-> collection, before |-> undefined,
                      after |-> model,
                      options |-> <<CallerObject(options)>>]>>,
        beforeCache |-> bc]

\* changeUndoType('add').on
addOn(model, collection, options, bc) ==
  IF hasSkip(options)
  THEN [result |-> <<>>, beforeCache |-> bc]
  ELSE [result |-> <<[object |-> collection, before |-> undefined,
                      after |-> model,
                      options |-> <<SpreadOptions(options)>>]>>,
        beforeCache |-> bc]

\* changeUndoType('remove').on
removeOn(model, collection, options, bc) ==
  IF hasSkip(options)
  THEN [result |-> <<>>, beforeCache |-> bc]
  ELSE [result |-> <<[object |-> collection, before |-> model,
                      after |-> undefined,
                      options |-> <<SpreadOptions(options)>>]>>,
        beforeCache |-> bc]

\* customUndoType.on
customOn(object, opt, prev, json, bc) ==
  LET cache == IF Falsy(bc) THEN prev ELSE bc IN
  IF hasSkip(opt)
  THEN [result |-> <<>>, beforeCache |-> cache]
  ELSE [result |-> <<[object |-> object, before |-> cache, after |-> json,
                      options |-> <<>>]>>,
        beforeCache |-> null]

\* The entities' state as one value, for the replay of records.
HostState == [attrs |-> attrs, members |-> members]

\* model.set(snapshot): every attribute of the snapshot is written.
ModelSet(st, model, snapshot) ==
  [st EXCEPT !.attrs = [@ EXCEPT ![model] = snapshot]]

\* customUndoType.undo / customUndoType.redo
customUndo(st, model, bf, af) == ModelSet(st, model, bf)
customRedo(st, model, bf, af) == ModelSet(st, model, af)

\* events.forEach(ev => um.addUndoType(`change:${ev}`, customUndoType))
events == {"style", "attributes", "content", "src"}
CustomKinds == {"change:style", "change:attributes", "change:content",
                "change:src"}
ModelKinds == {"change"} \cup CustomKinds
UndoTypes == ModelKinds \cup {"add", "remove"}

\* um.on('undo redo', () => em.trigger('component:toggled
\* change:canvasOffset')): what em receives for the um event e.
onUndoRedo(e) ==
  <<[name |-> "component:toggled", pointer |-> e.pointer],
    [name |-> "change:canvasOffset", pointer |-> e.pointer]>>

\* The forwarding listener registered for 'undo' only.
onEvent_undoOnly(e) ==
  IF e.name = "undo" THEN <<[name |-> e.name, pointer |-> e.pointer]>>
  ELSE <<>>

\* ['undo', 'redo'].forEach(ev => um.on(ev, () => em.trigger(ev)))
onEvent(e) == <<[name |-> e.name, pointer |-> e.pointer]>>

\* The listeners of index.js on a um event, in the order they were
\* registered.
emTrigger(e) == onUndoRedo(e) \o onEvent(e)

(* ------------------- the command stack behind `um` ---------------------- *)

\* The undo / redo of the built-in types, which index.js leaves in place.
changeUndo(st, model, before, after) == ModelSet(st, model, before)
changeRedo(st, model, before, after) == ModelSet(st, model, after)
CollectionAdd(st, collection, model) ==
  [st EXCEPT !.members = [@ EXCEPT ![collection] = @ \cup {model}]]
CollectionRemove(st, collection, model) ==
  [st EXCEPT !.members = [@ EXCEPT ![collection] = @ \ {model}]]

\* applyUndo / applyRedo of one record, resolved by its type.
UndoRecord(st, r) ==
  CASE r.type = "change" -> changeUndo(st, r.object, r.before, r.after)
    [] r.type = "add" -> CollectionRemove(st, r.object, r.after)
    [] r.type = "remove" -> CollectionAdd(st, r.object, r.before)
    [] OTHER -> customUndo(st, r.object, r.before, r.after)

RedoRecord(st, r) ==
  CASE r.type = "change" -> changeRedo(st, r.object, r.before, r.after)
    [] r.type = "add" -> CollectionAdd(st, r.object, r.after)
    [] r.type = "remove" -> CollectionRemove(st, r.object, r.before)
    [] OTHER -> customRedo(st, r.object, r.before, r.after)

\* Revert the n records stack[i], stack[i-1], ..., newest first.
RECURSIVE ApplyUndo(_, _, _)
ApplyUndo(st, i, n) ==
  IF n = 0 THEN st ELSE ApplyUndo(UndoRecord(st, stack[i]), i - 1, n - 1)

\* Replay the n records stack[i], stack[i+1], ..., oldest first.
RECURSIVE ApplyRedo(_, _, _)
ApplyRedo(st, i, n) ==
  IF n = 0 THEN st ELSE ApplyRedo(RedoRecord(st, stack[i]), i + 1, n - 1)

\* The number of contiguous records from index i downwards carrying tag g.
RECURSIVE GroupDown(_, _)
GroupDown(i, g) ==
  IF i >= 1 /\ stack[i].magicFusionIndex = g
  THEN 1 + GroupDown(i - 1, g) ELSE 0

\* The number of contiguous records from index i upwards carrying tag g.
RECURSIVE GroupUp(_, _)
GroupUp(i, g) ==
  IF i <= Len(stack) /\ stack[i].magicFusionIndex = g
  THEN 1 + GroupUp(i + 1, g) ELSE 0

\* isAvailable(direction)
isAvailable(direction) ==
  IF direction = "undo" THEN pointer > 0 ELSE pointer < Len(stack)

\* Group tags that start again at 0 on an empty stack.
getMagicFusionIndex_reuse ==
  IF callstackWasIndexed THEN magicFusionIndex
  ELSE IF stack = <<>> THEN 0 ELSE magicFusionIndex + 1

\* The group tag of a record pushed now: a new one on the first push of a
\* cycle, the current one on the later pushes of the same cycle.
getMagicFusionIndex ==
  IF callstackWasIndexed THEN magicFusionIndex ELSE magicFusionIndex + 1

\* push(record): truncate the tail at the pointer, append, advance the
\* pointer, evict the oldest record if over the bound.
push(record) ==
  LET appended == Append(SubSeq(stack, 1, pointer), record)
      over == Len(appended) > maximumStackLength
  IN [stack |-> IF over THEN Tail(appended) ELSE appended,
      pointer |-> IF over THEN pointer ELSE pointer + 1]

\* What the handler of `type` returns for a notification.
on(type, object, elem, opt, prev, json, bc) ==
  CASE type = "change" -> changeOn(object, opt, prev, json, bc)
    [] type = "add" -> addOn(elem, object, opt, bc)
    [] type = "remove" -> removeOn(elem, object, opt, bc)
    [] OTHER -> customOn(object, opt, prev, json, bc)

\* The condition of the handler of `type`; only 'change' declares one.
condition(type, object) ==
  IF type = "change" THEN changeCondition(object) ELSE TRUE

\* Whether the recorder captures the notification at all.
Captures(type, object) ==
  /\ track
  /\ object \in registered
  /\ type \in UndoTypes
  /\ condition(type, object)

\* The change recorder on one notification of a tracked entity.
addToStack(type, object, elem, opt, prev, json) ==
  IF Captures(type, object)
  THEN LET r == on(type, object, elem, opt, prev, json, beforeCache) IN
       /\ beforeCache' = r.beforeCache
       /\ IF r.result # <<>>
          THEN LET rec == [type |-> type,
                           object |-> r.result[1].object,
                           before |-> r.result[1].before,
                           after |-> r.result[1].after,
                           options |-> r.result[1].options,
                           magicFusionIndex |-> getMagicFusionIndex]
                   p == push(rec)
               IN /\ stack' = p.stack
                  /\ pointer' = p.pointer
                  /\ magicFusionIndex' = getMagicFusionIndex
                  /\ callstackWasIndexed' = TRUE
          ELSE UNCHANGED <<stack, pointer, magicFusionIndex,
                           callstackWasIndexed>>
  ELSE UNCHANGED <<beforeCache, stack, pointer, magicFusionIndex,
                   callstackWasIndexed>>

\* Whether this notification appends a record.
Pushes(type, object, elem, opt, prev, json) ==
  /\ Captures(type, object)
  /\ on(type, object, elem, opt, prev, json, beforeCache).result # <<>>

\* um.undo(magic): one record, or with magic the group before the pointer.
um_undo(magic) ==
  LET n == IF pointer = 0 THEN 0
           ELSE IF magic
                THEN GroupDown(pointer, stack[pointer].magicFusionIndex)
                ELSE 1
      st == ApplyUndo(HostState, pointer, n)
  IN /\ pointer' = pointer - n
     /\ attrs' = st.attrs
     /\ members' = st.members

\* um.redo(magic)
um_redo(magic) ==
  LET n == IF pointer = Len(stack) THEN 0
           ELSE IF magic
                THEN GroupUp(pointer + 1, stack[pointer + 1].magicFusionIndex)
                ELSE 1
      st == ApplyRedo(HostState, pointer + 1, n)
  IN /\ pointer' = pointer + n
     /\ attrs' = st.attrs
     /\ members' = st.members

\* um.undoAll(): every applied record, newest first.
um_undoAll ==
  LET st == ApplyUndo(HostState, pointer, pointer) IN
  /\ pointer' = 0
  /\ attrs' = st.attrs
  /\ members' = st.members

\* um.redoAll(): every record after the pointer, oldest first.
um_redoAll ==
  LET st == ApplyRedo(HostState, pointer + 1, Len(stack) - pointer) IN
  /\ pointer' = Len(stack)
  /\ attrs' = st.attrs
  /\ members' = st.members

\* um.clear()
um_clear ==
  /\ stack' = <<>>
  /\ pointer' = 0


\* um.trigger(which): emitted once when an undo or redo operation has
\* applied, after the pointer has moved; nothing when it did not apply.
um_trigger(which) ==
  bus' = IF pointer' # pointer
         THEN emTrigger([name |-> which, pointer |-> pointer'])
         ELSE <<>>

(* ----------------------------- the host -------------------------------- *)

Min(a, b) == IF a <= b THEN a ELSE b

\* The model lets a record be pushed while the stack stays within
\* MaxRecords + 1 records (the stack's own limit keeps it there when that
\* limit is small enough).
WithinBounds == Min(pointer + 1, maximumStackLength) <= MaxRecords + 1

\* How a mutation went: its options carried a flag; or it left a record,
\* discarding a redo tail or not; or it was ignored for another reason.
Outcome(opt, pushed) ==
  IF opt # {} THEN "flagged"
  ELSE IF ~pushed THEN "ignored"
  ELSE IF pointer < Len(stack) THEN "discarded" ELSE "recorded"

Recorded == {"recorded", "discarded"}

\* The state of an entity: a model's attributes, a collection's elements.
StateOf(e) == IF e \in Models THEN attrs[e] ELSE members[e]

NoTrip == [phase |-> "none", e |-> "", s0 |-> "", s1 |-> ""]

\* last.n is the number of records the operation moved the pointer over.
Done(op, arg) ==
  /\ last' = [op |-> op, arg |-> arg,
              n |-> IF pointer' >= pointer THEN pointer' - pointer
                    ELSE pointer - pointer']
  /\ IF op = "undoAll" THEN um_trigger("undo")
     ELSE IF op = "redoAll" THEN um_trigger("redo")
     ELSE bus' = <<>>
  /\ callerOpts' = {}
  /\ trip' = NoTrip

\* A mutation of entity e from state s0 to state s1 is done.  When it left a
\* record that is the only one of its group, a round trip starts.
Mutated(op, opt, pushed, e, s0, s1) ==
  /\ last' = [op |-> op, arg |-> Outcome(opt, pushed), n |-> 0]
  /\ bus' = <<>>
  /\ callerOpts' = IF op \in {"add", "remove"} THEN opt ELSE {}
  /\ trip' = IF /\ pushed
                /\ \/ pointer' = 1
                   \/ stack'[pointer' - 1].magicFusionIndex
                        # stack'[pointer'].magicFusionIndex
             THEN [phase |-> "mutated", e |-> e, s0 |-> s0, s1 |-> s1]
             ELSE NoTrip

\* An undo or redo call is done; when it applied to the whole group and
\* directly follows the mutation (the undo) or that undo (the redo), the
\* round trip goes on.
Replayed(op, all, from, to) ==
  /\ last' = [op |-> op, arg |-> IF all THEN "all" ELSE "one",
              n |-> IF pointer' >= pointer THEN pointer' - pointer
                    ELSE pointer - pointer']
  /\ um_trigger(op)
  /\ callerOpts' = {}
  /\ trip' = IF all /\ ~editing /\ trip.phase = from
             THEN [trip EXCEPT !.phase = to] ELSE NoTrip

\* The host sets model m to state v; the model notifies with `kind`.
Set(m, kind, v, opt) ==
  /\ v # attrs[m]
  /\ Pushes(kind, m, undefined, opt, attrs[m], v) => WithinBounds
  /\ attrs' = [attrs EXCEPT ![m] = v]
  /\ addToStack(kind, m, undefined, opt, attrs[m], v)
  /\ Mutated(kind, opt, Pushes(kind, m, undefined, opt, attrs[m], v),
             m, attrs[m], v)
  /\ UNCHANGED <<members, editing, hostOpts, maximumStackLength, registered,
                 track, destroyed>>

\* The host adds element x to collection c; the collection notifies 'add'.
CollAdd(c, x, opt) ==
  /\ x \notin members[c]
  /\ Pushes("add", c, x, opt, undefined, undefined) => WithinBounds
  /\ members' = [members EXCEPT ![c] = @ \cup {x}]
  /\ addToStack("add", c, x, opt, undefined, undefined)
  /\ Mutated("add", opt, Pushes("add", c, x, opt, undefined, undefined),
             c, members[c], members[c] \cup {x})
  /\ UNCHANGED <<attrs, editing, hostOpts, maximumStackLength, registered,
                 track, destroyed>>

\* The host removes element x from collection c.
CollRemove(c, x, opt) ==
  /\ x \in members[c]
  /\ Pushes("remove", c, x, opt, undefined, undefined) => WithinBounds
  /\ members' = [members EXCEPT ![c] = @ \ {x}]
  /\ addToStack("remove", c, x, opt, undefined, undefined)
  /\ Mutated("remove", opt,
             Pushes("remove", c, x, opt, undefined, undefined),
             c, members[c], members[c] \ {x})
  /\ UNCHANGED <<attrs, editing, hostOpts, maximumStackLength, registered,
                 track, destroyed>>

\* The caller of the add / remove just made changes the options object it
\* passed.
ChangeOptions(opt) ==
  /\ last.op \in {"add", "remove", "options"}
  /\ opt # callerOpts
  /\ callerOpts' = opt
  /\ last' = [op |-> "options", arg |-> "", n |-> 0]
  /\ bus' = <<>>
  /\ trip' = NoTrip
  /\ UNCHANGED <<attrs, members, editing, hostOpts, maximumStackLength,
                 registered, track, stack, pointer, beforeCache,
                 magicFusionIndex, callstackWasIndexed, destroyed>>

\* An inline-edit session starts or ends.
ToggleEditing ==
  /\ editing' = ~editing
  /\ UNCHANGED <<attrs, members, hostOpts, maximumStackLength, registered,
                 track, stack, pointer, beforeCache, magicFusionIndex,
                 callstackWasIndexed, destroyed>>
  /\ Done("host", "")

\* The running cycle ends: the next push opens a new group.
EndCycle ==
  /\ callstackWasIndexed
  /\ magicFusionIndex < MaxFusion
  /\ callstackWasIndexed' = FALSE
  /\ UNCHANGED <<attrs, members, editing, hostOpts, maximumStackLength,
                 registered, track, stack, pointer, beforeCache,
                 magicFusionIndex, destroyed>>
  /\ Done("host", "")

(* ----------------------------- the facade ------------------------------ *)

isEditing == editing

add(entity) ==
  /\ registered' = registered \cup {entity}
  /\ UNCHANGED <<attrs, members, editing, hostOpts, maximumStackLength,
                 track, stack, pointer, beforeCache, magicFusionIndex,
                 callstackWasIndexed, destroyed>>
  /\ Done("um.add", "")

remove(entity) ==
  /\ registered' = registered \ {entity}
  /\ UNCHANGED <<attrs, members, editing, hostOpts, maximumStackLength,
                 track, stack, pointer, beforeCache, magicFusionIndex,
                 callstackWasIndexed, destroyed>>
  /\ Done("um.remove", "")

removeAll ==
  /\ registered' = {}
  /\ UNCHANGED <<attrs, members, editing, hostOpts, maximumStackLength,
                 track, stack, pointer, beforeCache, magicFusionIndex,
                 callstackWasIndexed, destroyed>>
  /\ Done("um.removeAll", "")

start ==
  /\ track' = TRUE
  /\ UNCHANGED <<attrs, members, editing, hostOpts, maximumStackLength,
                 registered, stack, pointer, beforeCache, magicFusionIndex,
                 callstackWasIndexed, destroyed>>
  /\ Done("start", "")

\* stop that leaves the recorder running.
stop_tracking ==
  /\ track' = TRUE
  /\ UNCHANGED <<attrs, members, editing, hostOpts, maximumStackLength,
                 registered, stack, pointer, beforeCache, magicFusionIndex,
                 callstackWasIndexed, destroyed>>
  /\ Done("stop", "")

stop ==
  /\ track' = FALSE
  /\ UNCHANGED <<attrs, members, editing, hostOpts, maximumStackLength,
                 registered, stack, pointer, beforeCache, magicFusionIndex,
                 callstackWasIndexed, destroyed>>
  /\ Done("stop", "")

\* undo without the edit-mode guard.
undo_unguarded(all) ==
  /\ um_undo(all)
  /\ UNCHANGED <<editing, hostOpts, maximumStackLength, registered, track,
                 stack, beforeCache, magicFusionIndex, callstackWasIndexed,
                 destroyed>>
  /\ Replayed("undo", all, "mutated", "undone")

\* undo whose replay is recorded: the notification of the reverted record
\* goes through push.
undo_reentrant(all) ==
  /\ IF ~isEditing THEN um_undo(all) ELSE UNCHANGED <<pointer, attrs, members>>
  /\ stack' = IF pointer' # pointer
              THEN push([stack[pointer] EXCEPT !.before = stack[pointer].after,
                                               !.after = stack[pointer].before
                        ]).stack
              ELSE stack
  /\ UNCHANGED <<editing, hostOpts, maximumStackLength, registered, track,
                 beforeCache, magicFusionIndex, callstackWasIndexed,
                 destroyed>>
  /\ Replayed("undo", all, "mutated", "undone")

\* undo that does not hand `all` on to um.undo.
undo_single(all) ==
  /\ IF ~isEditing THEN um_undo(FALSE)
                   ELSE UNCHANGED <<pointer, attrs, members>>
  /\ UNCHANGED <<editing, hostOpts, maximumStackLength, registered, track,
                 stack, beforeCache, magicFusionIndex, callstackWasIndexed,
                 destroyed>>
  /\ Replayed("undo", all, "mutated", "undone")

undo(all) ==
  /\ IF ~isEditing THEN um_undo(all) ELSE UNCHANGED <<pointer, attrs, members>>
  /\ UNCHANGED <<editing, hostOpts, maximumStackLength, registered, track,
                 stack, beforeCache, magicFusionIndex, callstackWasIndexed,
                 destroyed>>
  /\ Replayed("undo", all, "mutated", "undone")

\* undoAll with the edit-mode guard of undo.
undoAll_guarded ==
  /\ IF ~isEditing THEN um_undoAll
                   ELSE UNCHANGED <<pointer, attrs, members>>
  /\ UNCHANGED <<editing, hostOpts, maximumStackLength, registered, track,
                 stack, beforeCache, magicFusionIndex, callstackWasIndexed,
                 destroyed>>
  /\ Done("undoAll", "")

undoAll ==
  /\ um_undoAll
  /\ UNCHANGED <<editing, hostOpts, maximumStackLength, registered, track,
                 stack, beforeCache, magicFusionIndex, callstackWasIndexed,
                 destroyed>>
  /\ Done("undoAll", "")

redo(all) ==
  /\ IF ~isEditing THEN um_redo(all) ELSE UNCHANGED <<pointer, attrs, members>>
  /\ UNCHANGED <<editing, hostOpts, maximumStackLength, registered, track,
                 stack, beforeCache, magicFusionIndex, callstackWasIndexed,
                 destroyed>>
  /\ Replayed("redo", all, "undone", "redone")

redoAll ==
  /\ um_redoAll
  /\ UNCHANGED <<editing, hostOpts, maximumStackLength, registered, track,
                 stack, beforeCache, magicFusionIndex, callstackWasIndexed,
                 destroyed>>
  /\ Done("redoAll", "")

\* hasUndo asking for the wrong direction.
hasUndo_redo == isAvailable("redo")

hasUndo == isAvailable("undo")

\* hasRedo asking for the wrong direction.
hasRedo_undo == isAvailable("undo")

hasRedo == isAvailable("redo")

getStack == stack

\* getPointer giving the index of the last applied record.
getPointer_lastApplied == pointer - 1

getPointer == pointer

\* inserted.indexOf(index): the position of index in `inserted`, from 0, or -1.
indexOf(inserted, index) ==
  IF \E i \in 1..Len(inserted) : inserted[i] = index
  THEN (CHOOSE i \in 1..Len(inserted) :
          /\ inserted[i] = index
          /\ \A j \in 1..(i - 1) : inserted[j] # index) - 1
  ELSE -1

\* The forEach of getStackGroup from record i on, with the result and the
\* inserted tags so far.
RECURSIVE StackGroupFrom(_, _, _)
StackGroupFrom(i, result, inserted) ==
  IF i > Len(getStack) THEN result
  ELSE LET index == getStack[i].magicFusionIndex IN
       IF indexOf(inserted, index) < 0
       THEN StackGroupFrom(i + 1, Append(result, getStack[i]),
                           Append(inserted, index))
       ELSE StackGroupFrom(i + 1, result, inserted)

\* The same forEach with inserted.push(index) forgotten.
RECURSIVE StackGroupFrom_noPush(_, _, _)
StackGroupFrom_noPush(i, result, inserted) ==
  IF i > Len(getStack) THEN result
  ELSE LET index == getStack[i].magicFusionIndex IN
       IF indexOf(inserted, index) < 0
       THEN StackGroupFrom_noPush(i + 1, Append(result, getStack[i]), inserted)
       ELSE StackGroupFrom_noPush(i + 1, result, inserted)

getStackGroup_noPush == StackGroupFrom_noPush(1, <<>>, <<>>)

getStackGroup == StackGroupFrom(1, <<>>, <<>>)

\* clear that also unregisters every entity.
clear_unregister ==
  /\ um_clear
  /\ registered' = {}
  /\ UNCHANGED <<attrs, members, editing, hostOpts, maximumStackLength,
                 track, beforeCache, magicFusionIndex, callstackWasIndexed,
                 destroyed>>
  /\ Done("clear", "")

clear ==
  /\ um_clear
  /\ UNCHANGED <<attrs, members, editing, hostOpts, maximumStackLength,
                 registered, track, beforeCache, magicFusionIndex,
                 callstackWasIndexed, destroyed>>
  /\ Done("clear", "")

\* destroy: this.clear().removeAll(); the forEach assigns {} to its own
\* parameter i, so em, um, config and beforeCache keep their values.
destroy ==
  /\ um_clear
  /\ registered' = {}
  /\ destroyed' = TRUE
  /\ UNCHANGED <<attrs, members, editing, hostOpts, maximumStackLength,
                 track, beforeCache, magicFusionIndex, callstackWasIndexed>>
  /\ Done("destroy", "")

(* -------------------------- the specifications ------------------------- *)

\* The state after init(opts): nothing registered, tracking on, empty stack.
InitWith(opts, limit) ==
  /\ attrs = [m \in Models |-> "red"]
  /\ members = [c \in Collections |-> {}]
  /\ editing = FALSE
  /\ hostOpts = opts
  /\ maximumStackLength = limit
  /\ registered = {}
  /\ track = TRUE
  /\ stack = <<>>
  /\ pointer = 0
  /\ beforeCache = undefined
  /\ magicFusionIndex = -1
  /\ callstackWasIndexed = FALSE
  /\ destroyed = FALSE
  /\ last = [op |-> "init", arg |-> "", n |-> 0]
  /\ callerOpts = {}
  /\ bus = <<>>
  /\ trip = NoTrip

\* The history operations, common to every specification.
History ==
  \/ EndCycle
  \/ \E all \in BOOLEAN : undo(all)
  \/ undoAll
  \/ \E all \in BOOLEAN : redo(all)
  \/ redoAll
  \/ clear

\* Spec: one model with a fine-grained change kind and one collection,
\* inline editing, and the stack limit scaled down from 500 to MaxRecords so
\* that eviction happens within the bounds.
Init == InitWith(EmptyObject, MaxRecords)

Next ==
  \/ \E v \in Values, opt \in Options : Set("m1", "change:style", v, opt)
  \/ \E x \in Elements, opt \in Options : CollAdd("c", x, opt)
  \/ \E x \in Elements, opt \in Options : CollRemove("c", x, opt)
  \/ \E entity \in {"m1", "c"} : add(entity)
  \/ ToggleEditing
  \/ History

Spec == Init /\ [][Next]_vars

\* SpecConfig: the engine as init(opts) really configures it, for a host
\* that passes no options or a stack limit of MaxRecords.
InitConfig ==
  \E opts \in HostOptions :
    InitWith(opts, initConfig(opts).maximumStackLength)

NextConfig ==
  \/ \E v \in Values, opt \in Options : Set("m1", "change:style", v, opt)
  \/ add("m1")
  \/ History

SpecConfig == InitConfig /\ [][NextConfig]_vars

\* SpecKinds: every change kind index.js registers a handler for, on one
\* model and one collection, with undo to leave a redo tail.
NextKinds ==
  \/ \E kind \in ModelKinds, v \in Values, opt \in Options :
       Set("m1", kind, v, opt)
  \/ \E x \in Elements, opt \in Options : CollAdd("c", x, opt)
  \/ \E x \in Elements, opt \in Options : CollRemove("c", x, opt)
  \/ \E entity \in {"m1", "c"} : add(entity)
  \/ \E all \in BOOLEAN : undo(all)

SpecKinds == Init /\ [][NextKinds]_vars

\* SpecGroups: one model and a stack limit of MaxRecords + 1, for groups of
\* up to that many records.
InitGroups == InitWith(EmptyObject, MaxRecords + 1)

NextGroups ==
  \/ \E v \in Values, opt \in Options : Set("m1", "change:style", v, opt)
  \/ add("m1")
  \/ History

SpecGroups == InitGroups /\ [][NextGroups]_vars

\* SpecLife: registration and destroy(), on one model.
NextLife ==
  \/ \E v \in Values, opt \in Options : Set("m1", "change:style", v, opt)
  \/ add("m1")
  \/ remove("m1")
  \/ removeAll
  \/ destroy
  \/ History

SpecLife == Init /\ [][NextLife]_vars

\* SpecTrack: start(), stop() and the registry, on one model.
NextTrack ==
  \/ \E v \in Values, opt \in Options : Set("m1", "change:style", v, opt)
  \/ add("m1")
  \/ remove("m1")
  \/ start
  \/ stop
  \/ History

SpecTrack == Init /\ [][NextTrack]_vars

\* SpecMarker: the generic 'change' kind on four models that differ in
\* their `_undo` marker.
NextMarker ==
  \/ \E m \in Models, v \in Values, opt \in Options : Set(m, "change", v, opt)
  \/ \E m \in Models : add(m)
  \/ \E all \in BOOLEAN : undo(all)
  \/ clear

SpecMarker == Init /\ [][NextMarker]_vars

\* SpecCapture: two models mutated with a fine-grained change kind, flagged
\* or not.
NextCapture ==
  \/ \E m \in {"m1", "m2"}, v \in Values, opt \in Options :
       Set(m, "change:style", v, opt)
  \/ \E m \in {"m1", "m2"} : add(m)
  \/ \E all \in BOOLEAN : undo(all)
  \/ clear

SpecCapture == Init /\ [][NextCapture]_vars

\* SpecColl: adds to and removes from one collection, whose caller may
\* change the options object afterwards.
NextColl ==
  \/ \E x \in Elements, opt \in Options : CollAdd("c", x, opt)
  \/ \E x \in Elements, opt \in Options : CollRemove("c", x, opt)
  \/ \E opt \in Options : ChangeOptions(opt)
  \/ add("c")
  \/ remove("c")
  \/ History

SpecColl == Init /\ [][NextColl]_vars

(* ------------------------------ the claims ----------------------------- *)

\* C1 (round trip), as claimed: when a recorded mutation took an entity from
\* S0 to S1 as a logical operation of its own, the undo() that directly
\* follows leaves the entity in S0 and the redo() that directly follows that
\* undo leaves it in S1, whatever preceded (suppressed mutations included).
C1_RoundTrip ==
  /\ trip.phase = "undone" => StateOf(trip.e) = trip.s0
  /\ trip.phase = "redone" => StateOf(trip.e) = trip.s1

\* C2 (bounded stack), as claimed: the stack never holds more records than
\* the maximumStackLength the host passed in the init options.
C2_HostLimitBoundsStack ==
  "maximumStackLength" \in DOMAIN hostOpts
    => Len(stack) <= hostOpts.maximumStackLength

\* C3 (branch discard): a step that pushes a record leaves the pointer equal
\* to stack.length, hasRedo() false and hasUndo() true, and the stack made of
\* the records that were before the pointer (less the evicted one) followed
\* by the new record: whatever was at or after the pointer is gone.
C3_BranchDiscard ==
  [][last'.arg \in Recorded =>
       /\ getPointer' = Len(getStack')
       /\ ~hasRedo'
       /\ hasUndo'
       /\ LET kept == SubSeq(stack, 1, pointer) IN
          SubSeq(stack', 1, Len(stack') - 1)
            = IF Len(kept) + 1 > maximumStackLength THEN Tail(kept) ELSE kept
    ]_vars

\* A recorded mutation has just discarded a redo tail.
C3_Witness ==
  /\ last.arg = "discarded"
  /\ getPointer = Len(getStack)
  /\ ~hasRedo

\* C4 (suppression): a mutation of any kind whose options carry avoidStore
\* or noUndo leaves the stack and the pointer as they were.
C4_Suppression ==
  [][last'.arg = "flagged" => stack' = stack /\ pointer' = pointer]_vars

\* A flagged mutation has just left a redo tail in place.
C4_Witness ==
  /\ last.arg = "flagged"
  /\ last.op = "change:src"
  /\ pointer < Len(stack)

\* C5 (edit-mode guard): an undo(all) or redo(all) call made while the host
\* is editing changes neither the pointer, nor the stack, nor any entity.
C5_EditGuard ==
  [][(last'.op \in {"undo", "redo"} /\ editing) =>
       /\ pointer' = pointer
       /\ stack' = stack
       /\ attrs' = attrs
       /\ members' = members
    ]_vars

\* undo has just been called while editing, with a record to undo.
C5_Witness ==
  /\ last.op = "undo"
  /\ editing
  /\ hasUndo

\* C6 (pointer invariant): 0 <= pointer <= stack.length.
C6_PointerInRange == 0 <= getPointer /\ getPointer <= Len(getStack)

\* A group-wide undo has just moved the pointer over one record of a group
\* of two: the pointer was inside the group.
C6_Witness ==
  /\ last = [op |-> "undo", arg |-> "all", n |-> 1]
  /\ pointer = 0
  /\ Len(stack) = 2
  /\ stack[1].magicFusionIndex = stack[2].magicFusionIndex

\* The records of the group step before the pointer, and after it.
UndoStep ==
  {i \in 1..pointer :
     \A j \in i..pointer :
       stack[j].magicFusionIndex = stack[pointer].magicFusionIndex}

RedoStep ==
  {i \in (pointer + 1)..Len(stack) :
     \A j \in (pointer + 1)..i :
       stack[j].magicFusionIndex = stack[pointer + 1].magicFusionIndex}

MinOf(I) == CHOOSE i \in I : \A j \in I : i <= j
MaxOf(I) == CHOOSE i \in I : \A j \in I : i >= j
ElemOf(r) == IF r.type = "add" THEN r.after ELSE r.before

\* The entities after the records I were reverted newest first: the oldest
\* record of an entity (of an element) decides.
RevertedAttrs(I) ==
  [m \in Models |->
     LET R == {i \in I : stack[i].object = m} IN
     IF R = {} THEN attrs[m] ELSE stack[MinOf(R)].before]

RevertedMembers(I) ==
  [c \in Collections |->
     {x \in Elements :
        LET R == {i \in I : stack[i].object = c /\ ElemOf(stack[i]) = x} IN
        IF R = {} THEN x \in members[c] ELSE stack[MinOf(R)].type = "remove"}]

\* The entities after the records I were replayed oldest first: the newest
\* record of an entity (of an element) decides.
ReplayedAttrs(I) ==
  [m \in Models |->
     LET R == {i \in I : stack[i].object = m} IN
     IF R = {} THEN attrs[m] ELSE stack[MaxOf(R)].after]

ReplayedMembers(I) ==
  [c \in Collections |->
     {x \in Elements :
        LET R == {i \in I : stack[i].object = c /\ ElemOf(stack[i]) = x} IN
        IF R = {} THEN x \in members[c] ELSE stack[MaxOf(R)].type = "add"}]

\* C7 (group step): outside edit mode undo() reverts exactly the contiguous
\* records sharing the group tag of the record before the pointer, newest
\* first, and moves the pointer left by their number; redo() replays the
\* group after the pointer, oldest first, and moves the pointer right.
C7_GroupStep ==
  [][(last'.arg = "all" /\ ~editing) =>
       /\ last'.op = "undo" =>
            /\ pointer' = pointer - Cardinality(UndoStep)
            /\ attrs' = RevertedAttrs(UndoStep)
            /\ members' = RevertedMembers(UndoStep)
       /\ last'.op = "redo" =>
            /\ pointer' = pointer + Cardinality(RedoStep)
            /\ attrs' = ReplayedAttrs(RedoStep)
            /\ members' = ReplayedMembers(RedoStep)
    ]_vars

\* undo() has just reverted a group of two records of two entities in one
\* step.
C7_Witness ==
  /\ last = [op |-> "undo", arg |-> "all", n |-> 2]
  /\ stack[1].object # stack[2].object
  /\ stack[1].magicFusionIndex = stack[2].magicFusionIndex

\* The records that are the first of their group tag in stack order.
FirstOfGroup ==
  {i \in 1..Len(stack) :
     \A j \in 1..(i - 1) :
       stack[j].magicFusionIndex # stack[i].magicFusionIndex}

\* C8 (getStackGroup): the result holds one record per distinct group tag
\* of the stack, the first record carrying the tag, in order of first
\* appearance.
C8_StackGroup ==
  LET G == getStackGroup IN
  /\ Len(G) = Cardinality({stack[i].magicFusionIndex : i \in 1..Len(stack)})
  /\ \A k \in 1..Len(G) :
       \E i \in FirstOfGroup :
         /\ G[k] = stack[i]
         /\ Cardinality({j \in FirstOfGroup : j < i}) = k - 1

\* Three records of one group, and one representative.
C8_Witness ==
  /\ Len(stack) = 3
  /\ stack[1].magicFusionIndex = stack[3].magicFusionIndex
  /\ Len(getStackGroup) = 1

\* C9 (undoAll / redoAll): in edit mode or not, undoAll() leaves the pointer
\* at 0 and hasUndo() false with every applied record reverted, and
\* redoAll() leaves the pointer at stack.length and hasRedo() false with
\* every record after the pointer replayed; the stack is untouched.
C9_Exhaust ==
  [][/\ last'.op = "undoAll" =>
          /\ getPointer' = 0
          /\ ~hasUndo'
          /\ stack' = stack
          /\ attrs' = RevertedAttrs(1..pointer)
          /\ members' = RevertedMembers(1..pointer)
     /\ last'.op = "redoAll" =>
          /\ getPointer' = Len(getStack')
          /\ ~hasRedo'
          /\ stack' = stack
          /\ attrs' = ReplayedAttrs((pointer + 1)..Len(stack))
          /\ members' = ReplayedMembers((pointer + 1)..Len(stack))
    ]_vars

\* undoAll() has just reverted records while the host was editing.
C9_Witness ==
  /\ last.op = "undoAll"
  /\ last.n > 0
  /\ editing
  /\ getPointer = 0

\* C10 (destroy), as claimed: once destroy() was called the stack stays
\* empty, whatever is called afterwards.
C10_UnusableAfterDestroy == destroyed => Len(stack) = 0

\* C11 (start / stop): recording is on after init; stop() turns it off and
\* start() on, and nothing else does; neither call alters the registry, the
\* stack or the pointer; while recording is off, and right after stop(), a
\* mutation leaves stack and pointer unchanged; while it is on, and right
\* after start(), an unflagged mutation of a registered entity is recorded.
C11_StartStop ==
  [][/\ last.op = "init" => track
     /\ last'.op = "stop" => ~track'
     /\ last'.op = "start" => track'
     /\ track' # track => last'.op \in {"start", "stop"}
     /\ last'.op \in {"start", "stop"} =>
          /\ registered' = registered
          /\ stack' = stack
          /\ pointer' = pointer
     /\ (last'.op \in UndoTypes /\ (~track \/ last.op = "stop")) =>
          /\ stack' = stack
          /\ pointer' = pointer
     /\ (/\ last'.op \in UndoTypes
         /\ last'.arg # "flagged"
         /\ "m1" \in registered
         /\ (track \/ last.op = "start")) => last'.arg \in Recorded
    ]_vars

\* An unflagged mutation of the registered model has just gone unrecorded
\* while recording was off, with a record from before the stop() in place.
C11_Witness ==
  /\ last.op = "change:style"
  /\ last.arg = "ignored"
  /\ ~track
  /\ "m1" \in registered
  /\ Len(stack) > 0

\* C12 (clear): clear() leaves an empty stack and pointer 0, hasUndo() and
\* hasRedo() false, and the registry, the recording state and the entities
\* as they were; the unflagged mutation of a registered entity that directly
\* follows, with recording on, is the single record of the stack.
C12_Clear ==
  [][/\ last'.op = "clear" =>
          /\ Len(getStack') = 0
          /\ getPointer' = 0
          /\ ~hasUndo'
          /\ ~hasRedo'
          /\ registered' = registered
          /\ track' = track
          /\ attrs' = attrs
          /\ members' = members
     /\ (/\ last.op = "clear"
         /\ last'.op \in UndoTypes
         /\ last'.arg # "flagged"
         /\ track
         /\ "m1" \in registered) =>
          /\ Len(getStack') = 1
          /\ getPointer' = 1
    ]_vars

\* A mutation has just been recorded as the single record after a clear()
\* of a stack that held records.
C12_Witness ==
  /\ last.op = "change:style"
  /\ last.arg \in Recorded
  /\ Len(stack) = 1
  /\ pointer = 1
  /\ stack[1].magicFusionIndex > 0

\* C13 (nothing to undo / redo): an undo(all) call made when hasUndo() is
\* false, and a redo(all) call made when hasRedo() is false, are steps the
\* engine takes and that leave stack, pointer and every entity unchanged.
C13_NoHistoryNoOp ==
  [][/\ (last'.op = "undo" /\ ~hasUndo) =>
          /\ stack' = stack
          /\ pointer' = pointer
          /\ attrs' = attrs
          /\ members' = members
     /\ (last'.op = "redo" /\ ~hasRedo) =>
          /\ stack' = stack
          /\ pointer' = pointer
          /\ attrs' = attrs
          /\ members' = members
    ]_vars

\* undo() has just been called outside edit mode with every record already
\* undone.
C13_Witness ==
  /\ last = [op |-> "undo", arg |-> "all", n |-> 0]
  /\ ~editing
  /\ ~hasUndo
  /\ hasRedo

\* The names of the events on the bus, in order.
BusNames == [i \in 1..Len(bus) |-> bus[i].name]

\* C14 (notifications): an undo, undoAll, redo or redoAll call that moved the
\* pointer put the visual-refresh signals and one `undo` (one `redo`) event
\* on the host bus, whatever the number of records it went over, and each
\* was emitted with the pointer already moved; a call that applied nothing
\* put nothing on the bus.
C14_Notifications ==
  [][last'.op \in {"undo", "undoAll", "redo", "redoAll"} =>
       LET which == IF last'.op \in {"undo", "undoAll"} THEN "undo"
                    ELSE "redo"
       IN IF pointer' # pointer
          THEN /\ BusNames' =
                    <<"component:toggled", "change:canvasOffset", which>>
               /\ \A i \in 1..Len(bus') : bus'[i].pointer = getPointer'
          ELSE bus' = <<>>
    ]_vars

\* redo() has just replayed a group of two records and emitted one `redo`.
C14_Witness ==
  /\ last = [op |-> "redo", arg |-> "all", n |-> 2]
  /\ Len(bus) = 3
  /\ bus[3].name = "redo"

\* Whether the claim makes a change of model m undoable: marker true, or a
\* list holding one of the changed attributes.
Undoable(m) ==
  \/ undoMarker[m].kind = "boolean" /\ undoMarker[m].value
  \/ undoMarker[m].kind = "array"
       /\ undoMarker[m].items \cap changedAttributes # {}

\* C15 (generic change condition), as claimed: an unflagged 'change' of a
\* registered model, with recording on, leaves a record if and only if the
\* model's marker is true or is a list holding a changed attribute.
C15_ChangeCondition ==
  [][(last'.op = "change" /\ last'.arg # "flagged" /\ track) =>
       \A m \in Models :
         (attrs'[m] # attrs[m] /\ m \in registered) =>
           (last'.arg \in Recorded <=> Undoable(m))
    ]_vars

\* C16 (no cross-contamination), as claimed: the record a mutation of model
\* m leaves has m as its target and, as its before snapshot, the state m
\* was in immediately before that mutation.
C16_OwnBefore ==
  [][(last'.op \in ModelKinds /\ last'.arg \in Recorded) =>
       \A m \in Models :
         attrs'[m] # attrs[m] =>
           /\ stack'[pointer'].object = m
           /\ stack'[pointer'].before = StateOf(m)
    ]_vars

\* C17 (capture-cache lifetime), as claimed: between operations, after
\* clear() and destroy() included, beforeCache holds no snapshot.
C17_CacheEmpty == Falsy(beforeCache)

\* C18 (re-entrancy): an undo, redo, undoAll or redoAll call leaves the
\* stack, the capture cache and the group tag as they were; of the engine's
\* state only the pointer moves.
C18_ReplayRecordsNothing ==
  [][last'.op \in {"undo", "redo", "undoAll", "redoAll"} =>
       /\ getStack' = getStack
       /\ beforeCache' = beforeCache
       /\ magicFusionIndex' = magicFusionIndex
       /\ registered' = registered
       /\ track' = track
    ]_vars

\* undo() has just reverted a change:style record by model.set(before), and
\* both records of the stack are still there.
C18_Witness ==
  /\ last.op = "undo"
  /\ last.n > 0
  /\ Len(stack) = 2
  /\ stack[pointer + 1].type = "change:style"
  /\ attrs[stack[pointer + 1].object] = stack[pointer + 1].before
  /\ stack[pointer + 1].before # stack[pointer + 1].after

\* The tags of the stack do not decrease in stack order (so equal tags are
\* contiguous) and none is above the last tag handed out.
TagsOrdered ==
  /\ \A i \in 1..Len(stack) : \A j \in i..Len(stack) :
       stack[i].magicFusionIndex <= stack[j].magicFusionIndex
  /\ \A i \in 1..Len(stack) : stack[i].magicFusionIndex <= magicFusionIndex

\* C19 (group tags): the last tag handed out never decreases, also across
\* clear(), and after every step the stack's tags are ordered and bounded
\* by it: a tag that left the stack by truncation, eviction or clear() is
\* not handed out again.
C19_GroupTags ==
  [][/\ magicFusionIndex' >= magicFusionIndex
     /\ TagsOrdered'
     /\ (last'.arg \in Recorded /\ ~callstackWasIndexed) =>
          /\ stack'[pointer'].magicFusionIndex > magicFusionIndex
          /\ \A i \in 1..Len(stack) :
               stack'[pointer'].magicFusionIndex > stack[i].magicFusionIndex
    ]_vars

\* A push that discarded a redo tail has opened a second group.
C19_Witness ==
  /\ last.arg = "discarded"
  /\ Len(stack) = 2
  /\ stack[1].magicFusionIndex < stack[2].magicFusionIndex

\* The options the i-th record of the stack reads as.
RecordOptions(i) == ReadOptions(stack[i].options[1], callerOpts)

\* C20 (add / remove capture): a recorded add of x to collection c leaves
\* one new record, at the pointer, with target c, before undefined, after x
\* and the options of the call; a recorded remove one with before x and
\* after undefined; and when the caller then changes its options object,
\* the options of every record read as they did.
C20_AddRemoveCapture ==
  [][/\ (last'.op \in {"add", "remove"} /\ last'.arg \in Recorded) =>
          \E c \in Collections, x \in Elements :
            /\ members'[c] # members[c]
            /\ x \in (members'[c] \ members[c]) \cup (members[c] \ members'[c])
            /\ pointer' = Len(stack')
            /\ Len(stack') = Min(pointer + 1, maximumStackLength)
            /\ stack'[pointer'].type = last'.op
            /\ stack'[pointer'].object = c
            /\ stack'[pointer'].before
                 = IF last'.op = "add" THEN undefined ELSE x
            /\ stack'[pointer'].after
                 = IF last'.op = "add" THEN x ELSE undefined
            /\ ReadOptions(stack'[pointer'].options[1], callerOpts')
                 = callerOpts'
     /\ last'.op = "options" =>
          /\ stack' = stack
          /\ \A i \in 1..Len(stack) : RecordOptions(i)' = RecordOptions(i)
    ]_vars

\* The caller has just changed the options object of a recorded add.
C20_Witness ==
  /\ last.op = "options"
  /\ pointer > 0
  /\ stack[pointer].type = "add"
  /\ callerOpts # RecordOptions(pointer)

=============================================================================
